---- MODULE Spec2Model ----
(***************************************************************************)
(* A model of the interview-preparation pipeline: the orchestrator         *)
(* (app/orchestrator/workflow.py, app/orchestrator/runner.py), the         *)
(* structured-output recovery of the agents, Stage 2 entity resolution and *)
(* Stage 3 contract repair.                                                *)
(*                                                                         *)
(* Python values are modelled as follows.  None and an absent value are    *)
(* the empty sequence <<>>, a present value v is <<v>> (Some(v)).  Strings *)
(* are TLA+ strings, "" is the empty string.  A dict is the sequence of    *)
(* its items [k |-> key, v |-> value] in insertion order, as Python keeps  *)
(* them.                                                                   *)
(***************************************************************************)
EXTENDS Integers, Sequences, FiniteSets, TLC

VARIABLES
    entry,        \* which entry point runs: "workflow" (workflow.main) or "runner" (runner.main)
    args,         \* the parsed command line
    env,          \* the environment variables read by the dispatch step
    pc,           \* position of the orchestrator
    executed,     \* history: the stages started so far, in order
    readLog,      \* history: <<stage, producing stage, materialised>> for every stage output read
    resume_out,   \* workflow.py:40
    jd_out,       \* workflow.py:43
    agent2_out,   \* workflow.py:70
    agent3_out,   \* workflow.py:82
    files,        \* the artifact files of the run directory
    vectorIds,    \* ids added to the retrieval store
    audit,        \* rows of the candidates table
    stdoutJson,   \* JSON objects printed on standard output, in order
    exitCode,     \* process completion code, -1 while running
    failedAt,     \* the stage whose exception ended the run, "" if none
    dispatch,     \* outcome of the e-mail dispatch
    contact,      \* (email, name, recipient) resolved at workflow.py:100-101
    invokes,      \* number of research-agent invocations (agent.invoke of run_agent2)
    searches,     \* number of web_search / fetch_url calls
    a2in,         \* arguments of a stand-alone run_agent2 call
    payload,      \* the user message run_agent2 gave the research agent, if any
    qaIn,         \* the recovered Stage 3 object and the call context of run_agent3
    qaOut,        \* results of the successive applications of the Stage 3 repair
    finalText,    \* final text of the model, the input of recovery
    recovered,    \* what each stage makes of text
    roundsOut,    \* a rounds string and the round lists derived from it
    runs          \* concurrent executions of workflow.main: clock, positions, writes

vars == <<entry, args, env, pc, executed, readLog, resume_out, jd_out, agent2_out,
          agent3_out, files, vectorIds, audit, stdoutJson, exitCode, failedAt,
          dispatch, contact, invokes, searches, a2in, payload, qaIn, qaOut, finalText,
          recovered, roundsOut, runs>>

\* the variables of the stand-alone function calls
aux == <<a2in, payload, qaIn, qaOut, finalText, recovered, roundsOut, runs>>

None == <<>>
Some(v) == <<v>>
EmptyMap == <<>>
Item(k, v) == [k |-> k, v |-> v]
HasKey(d, k) == \E i \in 1..Len(d) : d[i].k = k
Get(d, k) == d[CHOOSE i \in 1..Len(d) : d[i].k = k].v

Min(S) == CHOOSE x \in S : \A y \in S : x <= y

\* Python truthiness of an optional string: None and "" are falsy.
TruthyStr(o) == o # None /\ o[1] # ""

\* Python's `a or b` on optional strings.
OrElse(a, b) == IF TruthyStr(a) THEN a ELSE b


(***************************************************************************)
(* Bounds of the model.                                                    *)
(***************************************************************************)
\* most web_search / fetch_url calls the research agent makes in one invocation
MaxSearches == 2

(***************************************************************************)
(* Stage 1 output records (ParsedDocument and the other shapes run_agent1  *)
(* can return).  kind "doc" is a parsed document, kind "error" is the      *)
(* {error, raw_output} shape, kind "nondict" is a JSON value that is not   *)
(* an object.  top holds further top-level keys, entities the entity       *)
(* groups.  raw_text_preview is a sequence of segments; a segment is a     *)
(* label ("company", "role" or "none" for unlabelled text) and the text    *)
(* that follows it.  entities_t and preview_t are the JSON types of the two *)
(* fields: the model produces "dict" and "str" when it follows its prompt,  *)
(* and nothing between the model and the callers checks them.  A preview    *)
(* of type "list" holds its elements as segments.                           *)
(***************************************************************************)
Doc(doc_type, top, entities, preview) ==
    [kind |-> "doc", doc_type |-> doc_type, top |-> top,
     entities |-> entities, preview |-> preview,
     entities_t |-> "dict", preview_t |-> "str"]

\* the same record with entities and raw_text_preview of other JSON types
IllTyped(doc, entities_t, preview_t) ==
    [doc EXCEPT !.entities_t = entities_t, !.preview_t = preview_t]

\* {"error": "Failed to parse JSON from agent output.", "raw_output": text}
ErrorShape == [kind |-> "error", doc_type |-> "", top |-> EmptyMap,
               entities |-> EmptyMap, preview |-> <<>>,
               entities_t |-> "dict", preview_t |-> "str"]

\* a truthy JSON value that is not an object (json.loads of "[1]", "true", ...)
NonDict == [kind |-> "nondict", doc_type |-> "", top |-> EmptyMap,
            entities |-> EmptyMap, preview |-> <<>>,
            entities_t |-> "dict", preview_t |-> "str"]

Seg(label, text) == [label |-> label, text |-> text]

\* str.lower() on the doc_type strings of the model
Lower(s) == IF s = "Resume" THEN "resume" ELSE s

(***************************************************************************)
(* Stage 2: company / role resolution and run_agent2.                      *)
(***************************************************************************)
CompanyKeys == <<"Hiring Company", "Company", "Companies", "company", "companies">>

\* agent_2_researcher.py:254-257: the first listed key that holds a non-empty list
FirstEntityCompany(entities) ==
    LET hit == {i \in 1..Len(CompanyKeys) :
                   /\ HasKey(entities, CompanyKeys[i])
                   /\ Len(Get(entities, CompanyKeys[i])) > 0}
    IN  IF hit = {} THEN None ELSE Some(Get(entities, CompanyKeys[Min(hit)])[1])

\* re.search of a "<label>: <text>" pattern over the preview: the text of the
\* first segment with that label whose text is not empty
PreviewField(preview, label) ==
    LET hit == {i \in 1..Len(preview) :
                   preview[i].label = label /\ preview[i].text # ""}
    IN  IF hit = {} THEN None ELSE Some(preview[Min(hit)].text)

\* agent_2_researcher.py:264-265: what a resume-typed document returns as company
ResumeCompany(company) == company

GuessCompanyAndRole(agent1) ==
    LET doc_type == Lower(agent1.doc_type)
        company  == FirstEntityCompany(agent1.entities)
        role     == PreviewField(agent1.preview, "role")
    IN  IF doc_type = "resume"
        THEN [company_name |-> ResumeCompany(company), role_title |-> role]
        ELSE [company_name |-> IF TruthyStr(company) THEN company
                               ELSE PreviewField(agent1.preview, "company"),
              role_title |-> role]

\* a resolution in which the value inferred from the document goes first
ResolvedCompanyInferredFirst(agent1, company_override) ==
    OrElse(GuessCompanyAndRole(agent1).company_name, company_override)

\* agent_2_researcher.py:348-349
ResolvedCompany(agent1, company_override) ==
    OrElse(company_override, GuessCompanyAndRole(agent1).company_name)

ResolvedRole(agent1, role_override) ==
    OrElse(role_override, GuessCompanyAndRole(agent1).role_title)

\* Stage 2 results.  kind "report" is a research report, "error" the
\* {error, raw_output} shape, "nondict" a JSON value that is not an object.
Report(company_name, role_title, notes) ==
    [kind |-> "report", company_name |-> company_name,
     role_title |-> role_title, notes |-> notes]

StubReport(role_title) ==
    Report("unknown", role_title,
           "Missing company_name. Pass --company or supply a JD with company name.")

Stage2Error == [kind |-> "error", company_name |-> "", role_title |-> None, notes |-> ""]
Stage2NonDict == [kind |-> "nondict", company_name |-> "", role_title |-> None, notes |-> ""]

\* agent_2_researcher.py:368-373
UserPayload(company, role_title, doc_type) ==
    [company_name |-> company, role_title |-> role_title, agent1_doc_type |-> doc_type]

\* a run_agent2 that returns the stub only when no company value exists at all
ShortCircuitsOnNoneOnly(company) == company = None

\* whether run_agent2 returns the stub without invoking the agent
\* (agent_2_researcher.py:352)
ShortCircuits(company) == ~TruthyStr(company)

\* run_agent2: agent2_out' is None when the call raised.
RunAgent2(agent1, company_override, role_override) ==
    IF agent1.kind = "nondict"
    THEN \* agent1.get raises AttributeError inside guess_company_and_role
         /\ agent2_out' = None
         /\ UNCHANGED <<invokes, searches, payload>>
    ELSE LET company == ResolvedCompany(agent1, company_override)
             role    == ResolvedRole(agent1, role_override)
         IN  IF ShortCircuits(company)
             THEN /\ agent2_out' = Some(StubReport(role))
                  /\ UNCHANGED <<invokes, searches, payload>>
             ELSE /\ payload' = Some(UserPayload(company[1], role, agent1.doc_type))
                  /\ invokes' = invokes + 1
                  /\ \E n \in 0..MaxSearches : searches' = searches + n
                  /\ \E o \in {"raise", "report", "error", "nondict"} :
                        agent2_out' =
                           CASE o = "raise"   -> None
                             [] o = "report"  -> Some(Report(company[1], role, ""))
                             [] o = "error"   -> Some(Stage2Error)
                             [] o = "nondict" -> Some(Stage2NonDict)

(***************************************************************************)
(* Contact extraction (agent_4_dispatcher.py).                             *)
(***************************************************************************)
\* EMAIL_REGEX.search over the strings of the model: the first match, if any
EmailIn(str) ==
    CASE str \in {"jane@acme.io", "top@x.io", "john@example.com", "other@x.io"} -> Some(str)
      [] str = "Email: jane@acme.io" -> Some("jane@acme.io")
      [] str = "Email: prev@x.io"    -> Some("prev@x.io")
      [] OTHER                       -> None

\* _find_email_in_any on a list of strings
FindEmailInList(l) ==
    LET hit == {i \in 1..Len(l) : EmailIn(l[i]) # None}
    IN  IF hit = {} THEN None ELSE EmailIn(l[Min(hit)])

\* the email of the first key of `keys` present in dict d (of strings) whose
\* value holds one
FirstKeyedEmail(d, keys) ==
    LET hit == {i \in 1..Len(keys) : HasKey(d, keys[i]) /\ EmailIn(Get(d, keys[i])) # None}
    IN  IF hit = {} THEN None ELSE EmailIn(Get(d, keys[Min(hit)]))

\* the same on a dict of lists of strings
FirstKeyedListEmail(d, keys) ==
    LET hit == {i \in 1..Len(keys) :
                   HasKey(d, keys[i]) /\ FindEmailInList(Get(d, keys[i])) # None}
    IN  IF hit = {} THEN None ELSE FindEmailInList(Get(d, keys[Min(hit)]))

TopEmailKeys == <<"email", "candidate_email", "recipient_email">>
DictEmailKeys == <<"email", "candidate_email", "recipient_email", "mail">>
ContactLabels == <<"Contact Information", "contact_information", "contact info",
                   "contact", "Contact", "Personal Information", "personal_info">>
TopNameKeys == <<"name", "candidate_name", "full_name">>

\* _find_email_in_any on a dict of lists: the direct keys first, then every
\* value in insertion order
FindEmailInDict(d) ==
    LET direct == FirstKeyedListEmail(d, DictEmailKeys)
        hit    == {i \in 1..Len(d) : FindEmailInList(d[i].v) # None}
    IN  IF direct # None THEN direct
        ELSE IF hit = {} THEN None ELSE FindEmailInList(d[Min(hit)].v)

\* the text of a preview line: an unlabelled segment holds the part of the line
\* before its first '|'
LineString(seg) ==
    CASE seg.label = "none"    -> seg.text
      [] seg.label = "company" -> "Company: " \o seg.text
      [] seg.label = "role"    -> "Role: " \o seg.text

\* _find_email_in_any on the preview text
FindEmailInPreview(preview) ==
    LET hit == {i \in 1..Len(preview) : EmailIn(preview[i].text) # None}
    IN  IF hit = {} THEN None ELSE EmailIn(preview[Min(hit)].text)

\* a contact extraction that looks at the preview text before the entities
ExtractContactPreviewFirst(agent1) ==
    LET e1 == FirstKeyedEmail(agent1.top, TopEmailKeys)
        e2 == IF TruthyStr(e1) THEN e1 ELSE FindEmailInPreview(agent1.preview)
        e3 == IF TruthyStr(e2) THEN e2
              ELSE LET c == FirstKeyedListEmail(agent1.entities, ContactLabels)
                   IN  IF TruthyStr(c) THEN c ELSE FindEmailInDict(agent1.entities)
    IN  [email |-> e3, name |-> None]

\* the inputs on which extract_candidate_contact raises AttributeError: a
\* value without .get (agent_4_dispatcher.py:101), and a truthy
\* raw_text_preview without .splitlines (agent_4_dispatcher.py:125)
ContactRaises(agent1) ==
    \/ agent1.kind = "nondict"
    \/ agent1.preview_t # "str" /\ agent1.preview # <<>>

\* agent_4_dispatcher.py:80-141, on the inputs on which it returns
ExtractCandidateContact(agent1) ==
    LET e1 == FirstKeyedEmail(agent1.top, TopEmailKeys)
        e2 == IF TruthyStr(e1) \/ agent1.entities_t # "dict" THEN e1
              ELSE LET c == FirstKeyedListEmail(agent1.entities, ContactLabels)
                   IN  IF TruthyStr(c) THEN c ELSE FindEmailInDict(agent1.entities)
        e3 == IF agent1.preview # <<>> /\ ~TruthyStr(e2)
              THEN FindEmailInPreview(agent1.preview) ELSE e2
        n1 == IF agent1.preview # <<>> /\ LineString(agent1.preview[1]) # ""
              THEN Some(LineString(agent1.preview[1])) ELSE None
        nameKeys == {i \in 1..Len(TopNameKeys) :
                        /\ HasKey(agent1.top, TopNameKeys[i])
                        /\ Get(agent1.top, TopNameKeys[i]) # ""}
        n2 == IF TruthyStr(n1) THEN n1
              ELSE IF nameKeys = {} THEN n1
              ELSE Some(Get(agent1.top, TopNameKeys[Min(nameKeys)]))
    IN  [email |-> e3, name |-> n2]

(***************************************************************************)
(* Interview rounds given as text.  A text is a sequence of characters;    *)
(* "A" and "B" stand for the letters of round names, " " for a blank and   *)
(* "NL" for a newline.                                                     *)
(***************************************************************************)
Blank == {" ", "NL"}

RECURSIVE Strip(_)
\* str.strip()
Strip(str) ==
    IF str = <<>> THEN <<>>
    ELSE IF str[1] \in Blank THEN Strip(Tail(str))
    ELSE IF str[Len(str)] \in Blank THEN Strip(SubSeq(str, 1, Len(str) - 1))
    ELSE str

RECURSIVE SplitOn(_, _)
\* the parts of str between the characters of `seps`, empty parts included
SplitOn(str, seps) ==
    LET hit == {i \in 1..Len(str) : str[i] \in seps}
    IN  IF hit = {} THEN <<str>>
        ELSE <<SubSeq(str, 1, Min(hit) - 1)>>
             \o SplitOn(SubSeq(str, Min(hit) + 1, Len(str)), seps)

RECURSIVE StripAll(_)
\* [p.strip() for p in parts if p.strip()]
StripAll(parts) ==
    IF parts = <<>> THEN <<>>
    ELSE IF Strip(Head(parts)) = <<>> THEN StripAll(Tail(parts))
    ELSE <<Strip(Head(parts))>> \o StripAll(Tail(parts))

RECURSIVE Dedup(_, _)
\* runner.py:30-36: drop repeats, keep the first occurrence
Dedup(parts, seen) ==
    IF parts = <<>> THEN <<>>
    ELSE IF Head(parts) \in seen THEN Dedup(Tail(parts), seen)
    ELSE <<Head(parts)>> \o Dedup(Tail(parts), seen \cup {Head(parts)})

\* the characters runner._parse_rounds splits the rounds string on
RunnerSeparators == {"NL", ";"}

\* runner._parse_rounds(rounds_args, rounds_text); both arguments are optional
ParseRounds(rounds_args, rounds_text) ==
    LET fromArgs == IF rounds_args = None THEN <<>> ELSE StripAll(rounds_args[1])
        fromText == IF rounds_text = None \/ rounds_text[1] = <<>> THEN <<>>
                    ELSE StripAll(SplitOn(rounds_text[1], RunnerSeparators))
    IN  Dedup(fromArgs \o fromText, {})

(***************************************************************************)
(* The orchestrator, workflow.main.                                        *)
(***************************************************************************)
StageOrder == <<"STAGE1_RESUME", "STAGE1_JD", "PERSIST_RETRIEVAL", "STAGE2", "STAGE3",
                "STAGE4_RENDER", "STAGE4_DISPATCH", "AUDIT", "DONE">>

Rank(stage) == CHOOSE i \in 1..Len(StageOrder) : StageOrder[i] = stage

\* a back edge: Stage 3 followed by Stage 2 again
SuccessorWithBackEdge(stage, send_email) ==
    CASE stage = "STAGE1_RESUME"     -> "STAGE1_JD"
      [] stage = "STAGE1_JD"         -> "PERSIST_RETRIEVAL"
      [] stage = "PERSIST_RETRIEVAL" -> "STAGE2"
      [] stage = "STAGE2"            -> "STAGE3"
      [] stage = "STAGE3"            -> "STAGE2"
      [] stage = "STAGE4_RENDER"     -> IF send_email THEN "STAGE4_DISPATCH" ELSE "AUDIT"
      [] stage = "STAGE4_DISPATCH"   -> "AUDIT"
      [] stage = "AUDIT"             -> "DONE"

\* the statement order of workflow.main: the stage that follows `stage`
Successor(stage, send_email) ==
    CASE stage = "STAGE1_RESUME"     -> "STAGE1_JD"
      [] stage = "STAGE1_JD"         -> "PERSIST_RETRIEVAL"
      [] stage = "PERSIST_RETRIEVAL" -> "STAGE2"
      [] stage = "STAGE2"            -> "STAGE3"
      [] stage = "STAGE3"            -> "STAGE4_RENDER"
      [] stage = "STAGE4_RENDER"     -> IF send_email THEN "STAGE4_DISPATCH" ELSE "AUDIT"
      [] stage = "STAGE4_DISPATCH"   -> "AUDIT"
      [] stage = "AUDIT"             -> "DONE"

\* the stages whose output the code of `stage` reads
Reads(stage) ==
    CASE stage = "STAGE1_RESUME"     -> {}
      [] stage = "STAGE1_JD"         -> {"STAGE1_RESUME"}
      [] stage = "PERSIST_RETRIEVAL" -> {"STAGE1_RESUME", "STAGE1_JD"}
      [] stage = "STAGE2"            -> {"STAGE1_JD"}
      [] stage = "STAGE3"            -> {"STAGE1_RESUME", "STAGE1_JD", "STAGE2"}
      [] stage = "STAGE4_RENDER"     -> {"STAGE1_RESUME", "STAGE3"}
      [] stage = "STAGE4_DISPATCH"   -> {"STAGE1_RESUME", "STAGE4_RENDER"}
      [] stage = "AUDIT"             -> {"STAGE2", "STAGE4_RENDER"}

\* whether the output of `stage` exists in the current state
Materialised(stage) ==
    CASE stage = "STAGE1_RESUME" -> resume_out # None
      [] stage = "STAGE1_JD"     -> jd_out # None
      [] stage = "STAGE2"        -> agent2_out # None
      [] stage = "STAGE3"        -> agent3_out # None
      [] stage = "STAGE4_RENDER" -> files.pdf # None /\ contact # None
      [] OTHER                   -> FALSE

\* history of a stage that starts now
Begin(stage) ==
    /\ pc = stage
    /\ entry = "workflow"
    /\ executed' = Append(executed, stage)
    /\ readLog' = readLog \cup
          {[stage |-> stage, from |-> src, ok |-> Materialised(src)] : src \in Reads(stage)}

\* an exception leaves main: Python prints the traceback on standard error and
\* ends the process with code 1
Abort(stage) ==
    /\ pc' = "FAILED"
    /\ failedAt' = stage
    /\ exitCode' = 1

Advance(stage) ==
    /\ pc' = Successor(stage, args.send_email)
    /\ UNCHANGED <<failedAt, exitCode>>

\* the documents run_agent1 returns in the orchestrator runs of the model
ResumeJane ==
    Doc("resume", EmptyMap,
        <<Item("Contact Information", <<"Jane Lee", "jane@acme.io">>),
          Item("Companies", <<"PastCo">>)>>,
        <<Seg("none", "Jane Lee")>>)
JdAcme ==
    Doc("job_description", EmptyMap, EmptyMap,
        <<Seg("company", "Acme Corp"), Seg("role", "Analyst")>>)
\* agent_1_parser.py:282-290
EmptyParsedDoc == Doc("unknown", EmptyMap, EmptyMap, <<>>)

Agent1Returns == {ResumeJane, JdAcme, EmptyParsedDoc, ErrorShape, NonDict}

\* workflow.py:13-32
WfStart ==
    /\ pc = "INIT"
    /\ entry = "workflow"
    /\ IF args.interview_rounds = None
       THEN \* argparse: a required argument is missing
            /\ pc' = "USAGE_ERROR"
            /\ exitCode' = 2
       ELSE /\ pc' = "STAGE1_RESUME"
            /\ UNCHANGED exitCode
    /\ UNCHANGED <<entry, args, env, executed, readLog, resume_out, jd_out, agent2_out,
                   agent3_out, files, vectorIds, audit, stdoutJson, failedAt,
                   dispatch, contact, invokes, searches, aux>>

\* workflow.py:40
Stage1Resume ==
    /\ Begin("STAGE1_RESUME")
    /\ \/ /\ Abort("STAGE1_RESUME")
          /\ UNCHANGED resume_out
       \/ /\ \E r \in Agent1Returns : resume_out' = Some(r)
          /\ Advance("STAGE1_RESUME")
    /\ UNCHANGED <<entry, args, env, jd_out, agent2_out, agent3_out, files, vectorIds,
                   audit, stdoutJson, dispatch, contact, invokes, searches, aux>>

\* workflow.py:43-55
Stage1Jd ==
    /\ Begin("STAGE1_JD")
    /\ \/ /\ Abort("STAGE1_JD")
          /\ UNCHANGED <<jd_out, files>>
       \/ /\ \E r \in Agent1Returns :
                /\ jd_out' = Some(r)
                /\ files' = [files EXCEPT !.agent1 =
                                Some([resume_data |-> resume_out[1], jd_data |-> r])]
          /\ Advance("STAGE1_JD")
    /\ UNCHANGED <<entry, args, env, resume_out, agent2_out, agent3_out, vectorIds,
                   audit, stdoutJson, dispatch, contact, invokes, searches, aux>>

\* workflow.py:57-64
PersistRetrieval ==
    /\ Begin("PERSIST_RETRIEVAL")
    /\ IF resume_out[1].kind = "nondict" \/ jd_out[1].kind = "nondict"
       THEN \* .get on a value that is not a dict raises AttributeError
            /\ Abort("PERSIST_RETRIEVAL")
            /\ UNCHANGED vectorIds
       ELSE LET ids == (IF resume_out[1].preview # <<>> THEN {"res_" \o args.timestamp} ELSE {})
                       \cup (IF jd_out[1].preview # <<>> THEN {"jd_" \o args.timestamp} ELSE {})
            IN  \/ /\ ids # {}
                   /\ \E done \in SUBSET ids :
                         /\ done # ids
                         /\ ("jd_" \o args.timestamp) \in done => ids \subseteq done
                         /\ vectorIds' = vectorIds \cup done
                   /\ Abort("PERSIST_RETRIEVAL")
                \/ /\ vectorIds' = vectorIds \cup ids
                   /\ Advance("PERSIST_RETRIEVAL")
    /\ UNCHANGED <<entry, args, env, resume_out, jd_out, agent2_out, agent3_out, files,
                   audit, stdoutJson, dispatch, contact, invokes, searches, aux>>

\* workflow.py:70-75
Stage2 ==
    /\ Begin("STAGE2")
    /\ RunAgent2(jd_out[1], args.company, args.role)
    /\ IF agent2_out' = None
       THEN /\ Abort("STAGE2")
            /\ UNCHANGED files
       ELSE /\ files' = [files EXCEPT !.agent2 = agent2_out']
            /\ Advance("STAGE2")
    /\ UNCHANGED <<entry, args, env, resume_out, jd_out, agent3_out, vectorIds,
                   audit, stdoutJson, dispatch, contact, a2in, qaIn, qaOut, finalText,
                   recovered, roundsOut, runs>>

\* a Stage 3 that writes over the Stage 2 artifact as well
Stage3RewritesStage2 ==
    /\ Begin("STAGE3")
    /\ \/ /\ Abort("STAGE3")
          /\ UNCHANGED <<agent3_out, files>>
       \/ /\ \E k \in {"qaset", "error"} :
                /\ agent3_out' = Some([kind |-> k])
                /\ files' = [files EXCEPT !.agent2 = Some(Stage2Error),
                                          !.agent3 = Some([kind |-> k])]
          /\ Advance("STAGE3")
    /\ UNCHANGED <<entry, args, env, resume_out, jd_out, agent2_out, vectorIds,
                   audit, stdoutJson, dispatch, contact, invokes, searches, aux>>

\* workflow.py:82-93; run_agent3 returns a QASet or an {error, raw_output} shape
Stage3 ==
    /\ Begin("STAGE3")
    /\ \/ /\ Abort("STAGE3")
          /\ UNCHANGED <<agent3_out, files>>
       \/ /\ \E k \in {"qaset", "error"} :
                /\ agent3_out' = Some([kind |-> k])
                /\ files' = [files EXCEPT !.agent3 = Some([kind |-> k])]
          /\ Advance("STAGE3")
    /\ UNCHANGED <<entry, args, env, resume_out, jd_out, agent2_out, vectorIds,
                   audit, stdoutJson, dispatch, contact, invokes, searches, aux>>

\* workflow.py:101: (args.to_email or extracted_email or "").strip() or None
Recipient(to_email, extracted_email) ==
    LET r == OrElse(to_email, extracted_email)
    IN  IF TruthyStr(r) THEN r ELSE None

\* workflow.py:100-107
Stage4Render ==
    /\ Begin("STAGE4_RENDER")
    /\ IF ContactRaises(resume_out[1])
       THEN /\ Abort("STAGE4_RENDER")
            /\ UNCHANGED <<contact, files>>
       ELSE LET c == ExtractCandidateContact(resume_out[1])
                found == [email |-> c.email, name |-> c.name,
                          recipient |-> Recipient(args.to_email, c.email)]
            IN  /\ contact' = Some(found)
                /\ \/ /\ Abort("STAGE4_RENDER")
                      /\ UNCHANGED files
                   \/ /\ files' = [files EXCEPT !.pdf =
                                      Some([agent3 |-> agent3_out[1], name |-> found.name,
                                            email |-> found.recipient])]
                      /\ Advance("STAGE4_RENDER")
    /\ UNCHANGED <<entry, args, env, resume_out, jd_out, agent2_out, agent3_out, vectorIds,
                   audit, stdoutJson, dispatch, invokes, searches, aux>>

\* workflow.py:142-143: the exception of send_email_with_attachment is caught
\* and printed
OnTransportError(stage) == Advance(stage)

\* workflow.py:109-143
Stage4Dispatch ==
    /\ Begin("STAGE4_DISPATCH")
    /\ IF contact[1].recipient = None
       THEN /\ dispatch' = "no_recipient"
            /\ Advance("STAGE4_DISPATCH")
       ELSE IF ~env.smtp_port_numeric
       THEN \* int(os.getenv("SMTP_PORT", "587")) raises ValueError
            /\ dispatch' = "bad_port"
            /\ Abort("STAGE4_DISPATCH")
       ELSE IF ~env.smtp_credentials
       THEN /\ dispatch' = "no_credentials"
            /\ Advance("STAGE4_DISPATCH")
       ELSE \/ /\ dispatch' = "sent"
               /\ Advance("STAGE4_DISPATCH")
            \/ /\ dispatch' = "transport_error"
               /\ OnTransportError("STAGE4_DISPATCH")
    /\ UNCHANGED <<entry, args, env, resume_out, jd_out, agent2_out, agent3_out, files,
                   vectorIds, audit, stdoutJson, contact, invokes, searches, aux>>

PdfPath == "interview_qa_pack.pdf"

\* relational.py:28-41 with the arguments of workflow.py:146-154
RunRecord ==
    [candidate_name  |-> contact[1].name,
     candidate_email |-> contact[1].recipient,
     job_company     |-> IF agent2_out[1].kind = "report"
                         THEN Some(agent2_out[1].company_name) ELSE args.company,
     job_role        |-> IF agent2_out[1].kind = "report"
                         THEN agent2_out[1].role_title ELSE args.role,
     resume_path     |-> "resume",
     jd_path         |-> "jd",
     pdf_output_path |-> Some(PdfPath)]

\* workflow.py:145-154
Audit ==
    /\ Begin("AUDIT")
    /\ \/ /\ Abort("AUDIT")
          /\ UNCHANGED audit
       \/ /\ agent2_out[1].kind # "nondict"
          /\ audit' = Append(audit, RunRecord)
          /\ pc' = Successor("AUDIT", args.send_email)
          /\ exitCode' = 0
          /\ UNCHANGED failedAt
    /\ UNCHANGED <<entry, args, env, resume_out, jd_out, agent2_out, agent3_out, files,
                   vectorIds, stdoutJson, dispatch, contact, invokes, searches, aux>>

(***************************************************************************)
(* The command-line runner, runner.main.  The workflow function it calls   *)
(* (run_interview_prep_workflow) is not defined by workflow.py; its result *)
(* is taken from the specification: a status of completed, partial_success *)
(* or failed, or an exception.                                             *)
(***************************************************************************)
\* runner.py:87-92
RunnerParse ==
    /\ pc = "INIT"
    /\ entry = "runner"
    /\ IF ParseRounds(args.rounds_list, args.interview_rounds) = <<>>
       THEN \* parser.error: usage on standard error, exit code 2
            /\ pc' = "USAGE_ERROR"
            /\ exitCode' = 2
       ELSE /\ pc' = "RUNNER_CALL"
            /\ UNCHANGED exitCode
    /\ UNCHANGED <<entry, args, env, executed, readLog, resume_out, jd_out, agent2_out,
                   agent3_out, files, vectorIds, audit, stdoutJson, failedAt,
                   dispatch, contact, invokes, searches, aux>>

WorkflowResults == {"completed", "partial_success", "failed"}

\* runner.py:109-123
RunnerWorkflowRaises ==
    /\ pc = "RUNNER_CALL"
    /\ entry = "runner"
    /\ stdoutJson' = Append(stdoutJson, "failed")
    /\ exitCode' = 1
    /\ pc' = "FAILED"
    /\ failedAt' = "RUNNER_CALL"
    /\ UNCHANGED <<entry, args, env, executed, readLog, resume_out, jd_out, agent2_out,
                   agent3_out, files, vectorIds, audit, dispatch, contact, invokes,
                   searches, aux>>

\* runner.py:125-147
RunnerSummary ==
    /\ pc = "RUNNER_CALL"
    /\ entry = "runner"
    /\ \E status \in WorkflowResults :
          /\ stdoutJson' = stdoutJson \o <<"summary">>
                           \o (IF args.print_full_result THEN <<"full_result">> ELSE <<>>)
          /\ exitCode' = IF status = "failed" THEN 1 ELSE 0
    /\ pc' = "DONE"
    /\ UNCHANGED <<entry, args, env, executed, readLog, resume_out, jd_out, agent2_out,
                   agent3_out, files, vectorIds, audit, failedAt, dispatch, contact,
                   invokes, searches, aux>>

(***************************************************************************)
(* The stand-alone dispatcher, agent_4_dispatcher.main: the Stage 1 and    *)
(* Stage 3 outputs are loaded from the files given on the command line.    *)
(***************************************************************************)
\* agent_4_dispatcher.py:346-377
DispatcherRender ==
    /\ pc = "INIT"
    /\ entry = "dispatcher"
    /\ IF ContactRaises(resume_out[1])
       THEN /\ Abort("D4_RENDER")
            /\ UNCHANGED <<contact, files, stdoutJson>>
       ELSE LET c == ExtractCandidateContact(resume_out[1])
                found == [email |-> c.email, name |-> c.name,
                          recipient |-> Recipient(args.to_email, c.email)]
            IN  /\ contact' = Some(found)
                /\ \/ /\ Abort("D4_RENDER")
                      /\ UNCHANGED <<files, stdoutJson>>
                   \/ /\ files' = [files EXCEPT !.pdf =
                                      Some([agent3 |-> agent3_out[1], name |-> found.name,
                                            email |-> found.recipient])]
                      /\ stdoutJson' = Append(stdoutJson, "pdf_created")
                      /\ IF args.send_email
                         THEN pc' = "D4_DISPATCH" /\ UNCHANGED exitCode
                         ELSE pc' = "DONE" /\ exitCode' = 0
                      /\ UNCHANGED failedAt
    /\ UNCHANGED <<entry, args, env, executed, readLog, resume_out, jd_out, agent2_out,
                   agent3_out, vectorIds, audit, dispatch, invokes, searches, aux>>

\* agent_4_dispatcher.py:380-429: every dispatch failure is raised
DispatcherDispatch ==
    /\ pc = "D4_DISPATCH"
    /\ entry = "dispatcher"
    /\ \/ /\ dispatch' = IF contact[1].recipient = None THEN "no_recipient"
                         ELSE IF ~env.smtp_port_numeric THEN "bad_port"
                         ELSE IF ~env.smtp_credentials THEN "no_credentials"
                         ELSE "transport_error"
          /\ Abort("D4_DISPATCH")
          /\ UNCHANGED stdoutJson
       \/ /\ contact[1].recipient # None
          /\ env.smtp_port_numeric
          /\ env.smtp_credentials
          /\ dispatch' = "sent"
          /\ stdoutJson' = Append(stdoutJson, "email_sent")
          /\ pc' = "DONE"
          /\ exitCode' = 0
          /\ UNCHANGED failedAt
    /\ UNCHANGED <<entry, args, env, executed, readLog, resume_out, jd_out, agent2_out,
                   agent3_out, files, vectorIds, audit, contact, invokes, searches, aux>>

NoFiles == [agent1 |-> None, agent2 |-> None, agent3 |-> None, pdf |-> None]

\* the interview-round strings given on the command line in the model
RoundTexts == {<<>>, <<" ">>, <<";">>, <<"A">>, <<"A", ";", "B">>, <<"A", ",", "B">>}

InitFlow ==
    /\ entry \in {"workflow", "runner", "dispatcher"}
    /\ \E se \in BOOLEAN, to \in {None, Some("to@x.io")}, co \in {None, Some("Override Co")},
          ir \in {None} \cup {Some(t) : t \in RoundTexts},
          rl \in {None, Some(<<<<"A">>>>)}, pf \in BOOLEAN :
          /\ entry = "workflow" => rl = None /\ pf = FALSE
          /\ entry = "runner" => ~se /\ to = None /\ co = None
          /\ entry = "dispatcher" => rl = None /\ pf = FALSE /\ co = None /\ ir = None
          /\ args = [send_email |-> se, to_email |-> to, company |-> co, role |-> None,
                     interview_rounds |-> ir, rounds_list |-> rl,
                     print_full_result |-> pf, timestamp |-> "t1"]
    /\ env \in [smtp_credentials : BOOLEAN, smtp_port_numeric : BOOLEAN]
    /\ entry = "runner" => env = [smtp_credentials |-> TRUE, smtp_port_numeric |-> TRUE]
    /\ pc = "INIT"
    /\ executed = <<>>
    /\ readLog = {}
    /\ IF entry = "dispatcher"
       THEN /\ resume_out \in {Some(r) : r \in Agent1Returns}
            /\ agent3_out \in {Some([kind |-> k]) : k \in {"qaset", "error"}}
       ELSE /\ resume_out = None
            /\ agent3_out = None
    /\ jd_out = None
    /\ agent2_out = None
    /\ files = NoFiles
    /\ vectorIds = {}
    /\ audit = <<>>
    /\ stdoutJson = <<>>
    /\ exitCode = -1
    /\ failedAt = ""
    /\ dispatch = "none"
    /\ contact = None
    /\ invokes = 0
    /\ searches = 0
    /\ a2in = None
    /\ qaIn = None
    /\ qaOut = <<>>
    /\ finalText = None
    /\ recovered = None
    /\ payload = None
    /\ roundsOut = None
    /\ runs = None

NextFlow ==
    \/ WfStart
    \/ Stage1Resume
    \/ Stage1Jd
    \/ PersistRetrieval
    \/ Stage2
    \/ Stage3
    \/ Stage4Render
    \/ Stage4Dispatch
    \/ Audit
    \/ RunnerParse
    \/ RunnerWorkflowRaises
    \/ RunnerSummary
    \/ DispatcherRender
    \/ DispatcherDispatch

SpecFlow == InitFlow /\ [][NextFlow]_vars

(***************************************************************************)
(* Properties of the orchestrator.                                         *)
(***************************************************************************)
Terminated == pc \in {"DONE", "FAILED"}

\* the stages whose returned value is the {error, raw_output} shape
ErrorShapeStages ==
    (IF resume_out # None /\ resume_out[1].kind = "error" THEN {"STAGE1_RESUME"} ELSE {})
    \cup (IF jd_out # None /\ jd_out[1].kind = "error" THEN {"STAGE1_JD"} ELSE {})
    \cup (IF agent2_out # None /\ agent2_out[1].kind = "error" THEN {"STAGE2"} ELSE {})
    \cup (IF agent3_out # None /\ agent3_out[1].kind = "error" THEN {"STAGE3"} ELSE {})

\* C4: when a stage returned the {error, raw_output} shape, no stage after it
\* has been started and the run has not ended as completed.
C4_ErrorShapeStopsRun ==
    \A st \in ErrorShapeStages :
        /\ \A i \in 1..Len(executed) : Rank(executed[i]) <= Rank(st)
        /\ pc # "DONE"

\* the artifact file that holds the output of a stage
ArtifactOf(stage) ==
    CASE stage = "STAGE1_RESUME" -> files.agent1
      [] stage = "STAGE1_JD"     -> files.agent1
      [] stage = "STAGE2"        -> files.agent2
      [] stage = "STAGE3"        -> files.agent3

PersistedStages == {"STAGE1_RESUME", "STAGE1_JD", "STAGE2", "STAGE3"}

\* C5: write-through persistence: once a stage has produced its output and a
\* later stage has started, the artifact file of the earlier stage exists, so a
\* run that raised has an artifact for every stage completed before.
C5_WriteThrough ==
    \A st \in PersistedStages :
        (/\ Materialised(st)
         /\ \E i \in 1..Len(executed) : Rank(executed[i]) > Rank(st))
        => ArtifactOf(st) # None

\* the stages of a completed run, in order
FullRun(send_email) ==
    SelectSeq(SubSeq(StageOrder, 1, Len(StageOrder) - 1),
              LAMBDA st : st # "STAGE4_DISPATCH" \/ send_email)

\* C6: the orchestrator is linear: the stages started so far are in the order
\* of StageOrder with none repeated, the stage about to run is later than all
\* of them, every stage output read was produced by an earlier stage and was
\* complete when read, and a completed run has run every stage (dispatch only
\* when requested).
C6_LinearStateMachine ==
    /\ \A i, j \in 1..Len(executed) :
          i < j => Rank(executed[i]) < Rank(executed[j])
    /\ \A i \in 1..Len(executed) :
          pc \in {StageOrder[k] : k \in 1..Len(StageOrder)}
             => Rank(executed[i]) < Rank(pc)
    /\ \A r \in readLog : r.ok /\ Rank(r.from) < Rank(r.stage)
    /\ (entry = "workflow" /\ pc = "DONE") => executed = FullRun(args.send_email)

C6_Witness ==
    /\ entry = "workflow"
    /\ pc = "DONE"
    /\ Len(executed) = 8
    /\ Cardinality(readLog) = 13

\* C7: a run ended by an exception has reported one JSON object with status
\* failed and has a non-zero completion code.
C7_FailureReported ==
    pc = "FAILED" => (stdoutJson = <<"failed">> /\ exitCode # 0 /\ exitCode # -1)

\* C8: a run that ended, in success or in failure, has printed exactly one JSON
\* summary object.
C8_OneSummaryPerRun ==
    Terminated =>
        Cardinality({i \in 1..Len(stdoutJson) : stdoutJson[i] \in {"summary", "failed"}}) = 1

\* the ways the dispatch step can end without the e-mail being sent
DispatchFailed ==
    dispatch \in {"no_recipient", "no_credentials", "transport_error", "bad_port"}

\* C9: when the PDF was rendered and the dispatch then failed, for whatever
\* reason, the PDF file is still there, the run goes on to the audit step (only
\* the audit step itself can still end it) and the audit row of the completed
\* run carries the PDF path.
C9_DispatchFailureKeepsPdf ==
    (entry = "workflow" /\ DispatchFailed) =>
        /\ files.pdf # None
        /\ \/ pc \in {"AUDIT", "DONE"}
           \/ pc = "FAILED" /\ failedAt = "AUDIT"
        /\ pc = "DONE" => /\ Len(audit) = 1
                          /\ audit[1].pdf_output_path = Some(PdfPath)

(***************************************************************************)
(* A stand-alone call.  The orchestrator is idle: entry names the function *)
(* that is called and pc is "CALL" until it returned.                      *)
(***************************************************************************)
IdleFlow(callee) ==
    /\ entry = callee
    /\ args = [send_email |-> FALSE, to_email |-> None, company |-> None, role |-> None,
               interview_rounds |-> None, rounds_list |-> None,
               print_full_result |-> FALSE, timestamp |-> "t1"]
    /\ env = [smtp_credentials |-> FALSE, smtp_port_numeric |-> TRUE]
    /\ pc = "CALL"
    /\ executed = <<>>
    /\ readLog = {}
    /\ resume_out = None
    /\ jd_out = None
    /\ agent2_out = None
    /\ agent3_out = None
    /\ files = NoFiles
    /\ vectorIds = {}
    /\ audit = <<>>
    /\ stdoutJson = <<>>
    /\ exitCode = -1
    /\ failedAt = ""
    /\ dispatch = "none"
    /\ contact = None
    /\ invokes = 0
    /\ searches = 0

flowVars == <<entry, args, env, executed, readLog, resume_out, jd_out, agent2_out,
              agent3_out, files, vectorIds, audit, stdoutJson, exitCode, failedAt,
              dispatch, contact, invokes, searches>>

(***************************************************************************)
(* run_agent2 called on its own (agent_2_researcher.py:340-384).           *)
(***************************************************************************)
DocTypes == {"resume", "Resume", "job_description", "unknown"}

EntityVariants ==
    {EmptyMap,
     <<Item("Skills", <<"SQL">>)>>,
     <<Item("Companies", <<"PastCo">>)>>,
     <<Item("Company", <<>>), Item("companies", <<"PastCo", "OldCo">>)>>,
     <<Item("Hiring Company", <<"">>), Item("Company", <<"PastCo">>)>>}

PreviewVariants ==
    {<<>>,
     <<Seg("company", "Acme Corp")>>,
     <<Seg("role", "Analyst")>>,
     <<Seg("none", "Jane Lee"), Seg("company", ""), Seg("company", "Acme Corp"),
       Seg("role", "Analyst")>>}

\* the dicts run_agent2 is given as agent1_output
Agent1Dicts ==
    {Doc(t, EmptyMap, e, p) : t \in DocTypes, e \in EntityVariants, p \in PreviewVariants}
    \cup {ErrorShape}

InitResolve ==
    /\ IdleFlow("run_agent2")
    /\ \E d \in Agent1Dicts, co \in {None, Some(""), Some("Override Co")},
          ro \in {None, Some("Lead")} :
          a2in = Some([agent1 |-> d, company_override |-> co, role_override |-> ro])
    /\ qaIn = None
    /\ qaOut = <<>>
    /\ finalText = None
    /\ recovered = None
    /\ payload = None
    /\ roundsOut = None
    /\ runs = None

CallRunAgent2 ==
    /\ entry = "run_agent2"
    /\ pc = "CALL"
    /\ RunAgent2(a2in[1].agent1, a2in[1].company_override, a2in[1].role_override)
    /\ pc' = IF agent2_out' = None THEN "RAISED" ELSE "RETURNED"
    /\ UNCHANGED <<entry, args, env, executed, readLog, resume_out, jd_out, agent3_out,
                   files, vectorIds, audit, stdoutJson, exitCode, failedAt, dispatch,
                   contact, a2in, qaIn, qaOut, finalText, recovered, roundsOut, runs>>

NextResolve == CallRunAgent2

SpecResolve == InitResolve /\ [][NextResolve]_vars

\* the values held by the entity groups of a Stage 1 document
EntityValues(entities) ==
    UNION {{entities[i].v[j] : j \in 1..Len(entities[i].v)} : i \in 1..Len(entities)}

\* C2: for a document of doc_type "resume" and no company override,
\* guess_company_and_role does not return a value found in the document's
\* entities as company_name.
C2_ResumeCompanyGuard ==
    (/\ entry = "run_agent2"
     /\ pc # "CALL"
     /\ a2in[1].agent1.kind = "doc"
     /\ a2in[1].agent1.doc_type = "resume"
     /\ a2in[1].company_override = None)
    => LET c == GuessCompanyAndRole(a2in[1].agent1).company_name
       IN  c = None \/ c[1] \notin EntityValues(a2in[1].agent1.entities)

\* no company override is given and none can be resolved from the Stage 1 output
NoCompany ==
    /\ ~TruthyStr(a2in[1].company_override)
    /\ ~TruthyStr(GuessCompanyAndRole(a2in[1].agent1).company_name)

\* C3: when no company can be resolved from the Stage 1 output and no company
\* override is given, run_agent2 returns a report whose company_name is
\* "unknown" and whose notes are not empty, having invoked the research agent
\* and its search tools zero times.
C3_StubWithoutResearch ==
    (entry = "run_agent2" /\ pc # "CALL" /\ NoCompany)
    => /\ pc = "RETURNED"
       /\ agent2_out[1].kind = "report"
       /\ agent2_out[1].company_name = "unknown"
       /\ agent2_out[1].notes # ""
       /\ invokes = 0
       /\ searches = 0

C3_Witness ==
    /\ entry = "run_agent2"
    /\ pc = "RETURNED"
    /\ NoCompany
    /\ a2in[1].agent1.kind = "doc"
    /\ a2in[1].company_override = Some("")
    /\ GuessCompanyAndRole(a2in[1].agent1).company_name = Some("")
    /\ agent2_out[1].company_name = "unknown"

(***************************************************************************)
(* Stage 3 repair (agent_3_qa_gen.py:259-298).  The recovered value `data` *)
(* is a JSON value; for an object the model keeps the four keys the repair *)
(* looks at.  A key's value is absent, a list, a dict or something else    *)
(* ("other": a string, a number, null).  Question texts are numbered: 0 is *)
(* the empty string, two questions are the same string iff they have the   *)
(* same number.  A note is its kind and the count it reports.              *)
(***************************************************************************)
\* the sizes the repair enforces
Top30Limit == 30
Top20Limit == 20

\* bounds of the inputs: lists of up to MaxShort entries, and lists from one
\* entry below a limit to MaxOver entries above it
MaxShort == 2
MaxOver == 2

Absent == [t |-> "absent", v |-> <<>>]
ListV(l) == [t |-> "list", v |-> l]
Other == [t |-> "other", v |-> <<>>]

\* the "input" sub-object: a dict keeps its four bookkeeping keys as optionals
NoInputKeys == [agent1_file |-> None, agent2_file |-> None, doc_type |-> None,
                rounds |-> None]
AbsentInput == [t |-> "absent", v |-> NoInputKeys]
OtherInput == [t |-> "other", v |-> NoInputKeys]
DictInput(keys) == [t |-> "dict", v |-> keys]

CountNote(n) == [kind |-> "top_30_count", n |-> n]
DerivedNote == [kind |-> "auto_derived", n |-> 0]
ModelNote == [kind |-> "model", n |-> 0]

\* dict.setdefault on an optional key
SetDefault(old, default) == IF old = None THEN Some(default) ELSE old

\* agent_3_qa_gen.py:261-265; ok is FALSE when a statement raised
EnsureInput(data, ctx) ==
    IF ~data.isdict THEN [ok |-> FALSE, data |-> data]
    ELSE LET d1 == IF data.input.t = "absent"
                   THEN [data EXCEPT !.input = DictInput(NoInputKeys)] ELSE data
             k  == d1.input.v
         IN  IF d1.input.t # "dict" THEN [ok |-> FALSE, data |-> d1]
             ELSE [ok |-> TRUE,
                   data |-> [d1 EXCEPT !.input = DictInput(
                       [agent1_file |-> SetDefault(k.agent1_file, ctx.agent1_path),
                        agent2_file |-> SetDefault(k.agent2_file, ctx.agent2_path),
                        doc_type    |-> SetDefault(k.doc_type, ctx.doc_type),
                        rounds      |-> SetDefault(k.rounds, ctx.rounds)])]]

\* a note step that replaces the notes by the new note
ReplaceNotes(data, note) ==
    IF data.notes.t \notin {"absent", "list"} THEN [ok |-> FALSE, data |-> data]
    ELSE [ok |-> TRUE, data |-> [data EXCEPT !.notes = ListV(<<note>>)]]

\* data.setdefault("notes", []); data["notes"].append(note)
AppendNote(data, note) ==
    LET d1 == IF data.notes.t = "absent" THEN [data EXCEPT !.notes = ListV(<<>>)] ELSE data
    IN  IF d1.notes.t # "list" THEN [ok |-> FALSE, data |-> d1]
        ELSE [ok |-> TRUE, data |-> [d1 EXCEPT !.notes = ListV(Append(d1.notes.v, note))]]

\* data.get(key, []) of a list-valued key: the list, or None when the value
\* is not a list
GetList(field) ==
    CASE field.t = "absent" -> Some(<<>>)
      [] field.t = "list"   -> Some(field.v)
      [] OTHER              -> None

\* a size fix of top_30 that keeps the last entries instead of the first
FixTop30KeepLast(data) ==
    LET top_30 == GetList(data.top_30)
    IN  IF top_30 # None /\ Len(top_30[1]) > Top30Limit
        THEN [ok |-> TRUE,
              data |-> [data EXCEPT !.top_30 =
                           ListV(SubSeq(top_30[1], Len(top_30[1]) - Top30Limit + 1,
                                        Len(top_30[1])))]]
        ELSE IF top_30 # None /\ Len(top_30[1]) < Top30Limit
        THEN AppendNote(data, CountNote(Len(top_30[1])))
        ELSE [ok |-> TRUE, data |-> data]

\* agent_3_qa_gen.py:268-275
FixTop30(data) ==
    LET top_30 == GetList(data.top_30)
    IN  IF top_30 # None /\ Len(top_30[1]) > Top30Limit
        THEN [ok |-> TRUE,
              data |-> [data EXCEPT !.top_30 = ListV(SubSeq(top_30[1], 1, Top30Limit))]]
        ELSE IF top_30 # None /\ Len(top_30[1]) < Top30Limit
        THEN AppendNote(data, CountNote(Len(top_30[1])))
        ELSE [ok |-> TRUE, data |-> data]

RECURSIVE DeriveWithRepeats(_, _)
\* a derivation that keeps repeated questions
DeriveWithRepeats(items, derived) ==
    IF items = <<>> THEN derived
    ELSE LET q  == IF Head(items).isdict THEN Head(items).question ELSE 0
             d1 == IF q # 0 THEN Append(derived, q) ELSE derived
         IN  IF Len(d1) = Top20Limit THEN d1 ELSE DeriveWithRepeats(Tail(items), d1)

RECURSIVE Derive(_, _)
\* agent_3_qa_gen.py:283-289: the questions of the items in order, without
\* empty ones and repeats, up to Top20Limit of them
Derive(items, derived) ==
    IF items = <<>> THEN derived
    ELSE LET q  == IF Head(items).isdict THEN Head(items).question ELSE 0
             d1 == IF q # 0 /\ q \notin {derived[i] : i \in 1..Len(derived)}
                   THEN Append(derived, q) ELSE derived
         IN  IF Len(d1) = Top20Limit THEN d1 ELSE Derive(Tail(items), d1)

\* a size fix of top_20_questions that leaves an over-long list as it is
FixTop20NoCut(data) ==
    LET top_20 == GetList(data.top_20_questions)
    IN  IF top_20 # None /\ Len(top_20[1]) < Top20Limit /\ data.top_30.t = "list"
        THEN AppendNote([data EXCEPT !.top_20_questions =
                                         ListV(Derive(data.top_30.v, <<>>))],
                        DerivedNote)
        ELSE [ok |-> TRUE, data |-> data]

\* agent_3_qa_gen.py:277-292
FixTop20(data) ==
    LET top_20 == GetList(data.top_20_questions)
    IN  IF top_20 # None /\ Len(top_20[1]) > Top20Limit
        THEN [ok |-> TRUE,
              data |-> [data EXCEPT !.top_20_questions =
                                        ListV(SubSeq(top_20[1], 1, Top20Limit))]]
        ELSE IF top_20 # None /\ Len(top_20[1]) < Top20Limit /\ data.top_30.t = "list"
        THEN AppendNote([data EXCEPT !.top_20_questions =
                                         ListV(Derive(data.top_30.v, <<>>))],
                        DerivedNote)
        ELSE [ok |-> TRUE, data |-> data]

\* guardrails without a handler: the exception of a statement leaves run_agent3
GuardrailsUncaught(outcome) ==
    [kind |-> IF outcome.ok THEN "qaset" ELSE "raised", data |-> outcome.data]

\* agent_3_qa_gen.py:260, 294-298: `try: ... except Exception` around the
\* guardrails; an exception becomes the "Post-processing failed" shape whose
\* raw_output is data as it is when the statement raised
Guardrails(outcome) ==
    [kind |-> IF outcome.ok THEN "qaset" ELSE "error", data |-> outcome.data]

\* the guardrails of run_agent3 on a recovered value: the repaired QASet, or the
\* "Post-processing failed" shape
Repair(data, ctx) ==
    LET s1 == EnsureInput(data, ctx)
        s2 == IF s1.ok THEN FixTop30(s1.data) ELSE s1
        s3 == IF s2.ok THEN FixTop20(s2.data) ELSE s2
    IN  Guardrails(s3)

\* the characters run_agent3 splits the rounds string on (agent_3_qa_gen.py:224)
Agent3Separators == {";", "NL", "|", ","}

\* agent_3_qa_gen.py:226
DefaultRounds == <<<<"Recruiter Screen">>, <<"Technical Round">>, <<"Hiring Manager">>,
                   <<"Behavioral">>>>

\* agent_3_qa_gen.py:224-226
Agent3Rounds(interview_rounds) ==
    LET rounds == StripAll(SplitOn(interview_rounds, Agent3Separators))
    IN  IF rounds = <<>> THEN DefaultRounds ELSE rounds

\* workflow.py:46-54, 82-88: what the orchestrator passes to run_agent3
RepairContext(interview_rounds) ==
    [agent1_path |-> "agent1_combined_out.json", agent2_path |-> "agent2_out.json",
     doc_type |-> "combined_resume_and_jd", rounds |-> Agent3Rounds(interview_rounds)]

\* a top_30 item: a dict with a question and a round, or another JSON value
QAItem(isdict, question, round) == [isdict |-> isdict, question |-> question, round |-> round]

\* the list lengths the model draws for a list limited to `limit` entries
LengthsAround(limit) == (0..MaxShort) \cup ((limit - 1)..(limit + MaxOver))

\* a top_30 of n items whose questions repeat with the given period; shape
\* "nondict_first" makes the first item a non-dict, "empty_second" gives the
\* second item an empty question
Top30Of(n, period, shape) ==
    [i \in 1..n |->
        QAItem(~(shape = "nondict_first" /\ i = 1),
               IF shape = "empty_second" /\ i = 2 THEN 0 ELSE ((i - 1) % period) + 1,
               <<"A">>)]

\* a top_20_questions of m questions, none of them in top_30
Top20Of(m) == [i \in 1..m |-> 100 + i]

Top30Variants ==
    {Absent, Other}
    \cup {ListV(Top30Of(n, p, sh)) : n \in LengthsAround(Top30Limit),
                                     p \in {1, 3, Top30Limit + MaxOver},
                                     sh \in {"plain", "nondict_first", "empty_second"}}

Top20Variants == {Absent, Other} \cup {ListV(Top20Of(m)) : m \in LengthsAround(Top20Limit)}

NotesVariants == {Absent, Other, ListV(<<>>), ListV(<<ModelNote>>)}

InputVariants ==
    {AbsentInput, OtherInput, DictInput(NoInputKeys),
     DictInput([NoInputKeys EXCEPT !.agent1_file = Some("model.json"),
                                   !.rounds = Some(<<<<"B">>>>)])}

\* a truthy JSON value that is not an object
NonDictData == [isdict |-> FALSE, input |-> AbsentInput, top_30 |-> Absent,
                top_20_questions |-> Absent, notes |-> Absent]

\* the truthy values extract_json_object hands to the repair
RecoveredData ==
    {[isdict |-> TRUE, input |-> i, top_30 |-> t30, top_20_questions |-> t20, notes |-> n] :
        i \in InputVariants, t30 \in Top30Variants, t20 \in Top20Variants,
        n \in NotesVariants}
    \cup {NonDictData}

InitRepair ==
    /\ IdleFlow("run_agent3")
    /\ \E d \in RecoveredData, r \in {<<>>, <<"A", ",", "B">>} :
          qaIn = Some([data |-> d, ctx |-> RepairContext(r)])
    /\ qaOut = <<>>
    /\ a2in = None
    /\ finalText = None
    /\ recovered = None
    /\ payload = None
    /\ roundsOut = None
    /\ runs = None

\* the repair of run_agent3 on the recovered value
RepairOnce ==
    /\ entry = "run_agent3"
    /\ pc = "CALL"
    /\ qaOut' = <<Repair(qaIn[1].data, qaIn[1].ctx)>>
    /\ pc' = "REPAIRED"
    /\ UNCHANGED <<flowVars, runs, roundsOut, a2in, payload, qaIn, finalText, recovered>>

\* the repair applied to the QASet it returned
RepairAgain ==
    /\ entry = "run_agent3"
    /\ pc = "REPAIRED"
    /\ qaOut[1].kind = "qaset"
    /\ qaOut' = Append(qaOut, Repair(qaOut[1].data, qaIn[1].ctx))
    /\ pc' = "REPAIRED_AGAIN"
    /\ UNCHANGED <<flowVars, runs, roundsOut, a2in, payload, qaIn, finalText, recovered>>

NextRepair ==
    \/ RepairOnce
    \/ RepairAgain

SpecRepair == InitRepair /\ [][NextRepair]_vars

\* C1: the repair applied to an already repaired QASet returns that same QASet,
\* notes included.
C1_RepairIdempotent ==
    (entry = "run_agent3" /\ pc = "REPAIRED_AGAIN") => qaOut[2] = qaOut[1]

(***************************************************************************)
(* Recovery of a JSON value from the model's final text.  A text is a      *)
(* sequence of lexemes: "{" and "}", "T" for the literal true, "K" for a   *)
(* member key with its colon ("k":), "x" for a word of commentary, " " for *)
(* white space, "F" for a ``` fence and "G" for a ```json fence.  A parsed *)
(* JSON value is the sequence of its lexemes without white space.          *)
(***************************************************************************)
\* longest text, in lexemes
MaxTextLen == 4

Lexemes == {"{", "}", "T", "K", "x", " ", "F", "G"}

RECURSIVE SkipSpace(_, _)
\* the first position from i on that holds no white space
SkipSpace(str, i) ==
    IF i <= Len(str) /\ str[i] \in Blank THEN SkipSpace(str, i + 1) ELSE i

NoValue == [ok |-> FALSE, val |-> <<>>, next |-> 0]

RECURSIVE ParseValue(_, _)
\* json's decoder at position i of str: the value that starts there and the
\* position after it
ParseValue(str, i) ==
    IF i > Len(str) THEN NoValue
    ELSE IF str[i] = "T" THEN [ok |-> TRUE, val |-> <<"T">>, next |-> i + 1]
    ELSE IF str[i] = "{"
    THEN LET j == SkipSpace(str, i + 1)
         IN  IF j > Len(str) THEN NoValue
             ELSE IF str[j] = "}" THEN [ok |-> TRUE, val |-> <<"{", "}">>, next |-> j + 1]
             ELSE IF str[j] = "K"
             THEN LET member == ParseValue(str, SkipSpace(str, j + 1))
                      k      == SkipSpace(str, member.next)
                  IN  IF member.ok /\ k <= Len(str) /\ str[k] = "}"
                      THEN [ok |-> TRUE, val |-> <<"{", "K">> \o member.val \o <<"}">>,
                            next |-> k + 1]
                      ELSE NoValue
             ELSE NoValue
    ELSE NoValue

\* json.loads: the value when str is one JSON value between optional white
\* space, None when it raises
JsonLoads(str) ==
    LET r == ParseValue(str, SkipSpace(str, 1))
    IN  IF r.ok /\ SkipSpace(str, r.next) > Len(str) THEN Some(r.val) ELSE None

\* Python truth of a recovered value: None and the empty object are falsy
Truthy(data) == data # None /\ data[1] # <<"{", "}">>

\* whether a value is a JSON object
IsObject(val) == val # <<>> /\ val[1] = "{"

\* strip_code_fences (agent_1_parser.py:124-138, agent_2_researcher.py:86-92)
StripCodeFences(str) ==
    LET t1 == Strip(str)
        t2 == IF t1 # <<>> /\ t1[1] \in {"F", "G"}
              THEN SubSeq(t1, SkipSpace(t1, 2), Len(t1)) ELSE t1
        t3 == IF t2 # <<>> /\ t2[Len(t2)] = "F"
              THEN Strip(SubSeq(t2, 1, Len(t2) - 1)) ELSE t2
    IN  Strip(t3)

\* a block search that stops at the first closing brace
LazyBlock(str) ==
    LET opens  == {i \in 1..Len(str) : str[i] = "{"}
        closes == {i \in 1..Len(str) : str[i] = "}" /\ opens # {} /\ i > Min(opens)}
    IN  IF closes = {} THEN None ELSE Some(SubSeq(str, Min(opens), Min(closes)))

\* re.search(r"(\{.*\})", str, re.DOTALL): from the first "{" to the last "}"
GreedyBlock(str) ==
    LET opens  == {i \in 1..Len(str) : str[i] = "{"}
        closes == {i \in 1..Len(str) : str[i] = "}"}
    IN  IF opens = {} \/ closes = {} THEN None
        ELSE LET a == Min(opens)
                 b == CHOOSE i \in closes : \A j \in closes : j <= i
             IN  IF b > a THEN Some(SubSeq(str, a, b)) ELSE None

\* the outcome of a call that ended with an exception: a marker that is no JSON value
Raises == Some(<<"!">>)

\* json.loads raising out of the function that calls it
LoadsUncaught(str, onError) ==
    IF JsonLoads(str) = None THEN Raises ELSE JsonLoads(str)

\* try: return json.loads(str) / except Exception: <onError>
TryLoads(str, onError) ==
    IF JsonLoads(str) = None THEN onError ELSE JsonLoads(str)

\* extract_json_object of agent_1_parser.py:141-168 and agent_2_researcher.py:95-117
ExtractJsonObject(str) ==
    IF str = <<>> THEN None
    ELSE LET cleaned == StripCodeFences(str)
             m       == GreedyBlock(cleaned)
         IN  TryLoads(cleaned, IF m # None THEN TryLoads(m[1], None) ELSE None)

\* re.search(r"```json\s*(\{.*?\})\s*```", str): group 1 of the leftmost match,
\* the shortest one from there
FencedBlock(str) ==
    LET Ends(g) == {e \in 1..Len(str) :
                       /\ e > SkipSpace(str, g + 1)
                       /\ str[SkipSpace(str, g + 1)] = "{"
                       /\ str[e] = "}"
                       /\ SkipSpace(str, e + 1) <= Len(str)
                       /\ str[SkipSpace(str, e + 1)] \in {"F", "G"}}
        starts  == {g \in 1..Len(str) : str[g] = "G" /\ SkipSpace(str, g + 1) <= Len(str)
                                        /\ Ends(g) # {}}
    IN  IF starts = {} THEN None
        ELSE Some(SubSeq(str, SkipSpace(str, Min(starts) + 1), Min(Ends(Min(starts)))))

\* extract_json_object of agent_3_qa_gen.py:97-130
ExtractJsonObject3(str) ==
    IF str = <<>> THEN None
    ELSE LET t      == Strip(str)
             fenced == FencedBlock(t)
             block  == GreedyBlock(t)
             rest   == TryLoads(t, IF block # None THEN TryLoads(block[1], None) ELSE None)
         IN  IF fenced # None THEN TryLoads(fenced[1], rest) ELSE rest

\* What a stage returns for a final text.  kind "data" is the recovered value
\* (for Stage 3: the object the repair returned, built on that value),
\* "parse_error" the {"error": "Failed to parse JSON from agent output.",
\* "raw_output": <text>} shape and "postprocess_error" the
\* {"error": "Post-processing failed: ...", "raw_output": <value>} shape.
StageData(val) == [kind |-> "data", value |-> val, raw_output |-> <<>>]
ParseError(str) == [kind |-> "parse_error", value |-> <<>>, raw_output |-> str]
PostProcessError(val) == [kind |-> "postprocess_error", value |-> <<>>, raw_output |-> val]

\* the call ended with an exception that reached the caller
StageRaised == [kind |-> "raised", value |-> <<>>, raw_output |-> <<>>]

\* agent_1_parser.py:244-249 (and 270-275), agent_2_researcher.py:379-384; the
\* call of extract_json_object is in no try block
RunAgentOnText(content) ==
    LET t    == Strip(content)
        data == ExtractJsonObject(t)
    IN  IF data = Raises THEN StageRaised
        ELSE IF Truthy(data) THEN StageData(data[1]) ELSE ParseError(t)

\* agent_3_qa_gen.py:253-298: the call of extract_json_object is before the
\* try block; data.setdefault raises on a value that is not an object, inside it
RunAgent3OnText(content) ==
    LET t    == Strip(content)
        data == ExtractJsonObject3(t)
    IN  IF data = Raises THEN StageRaised
        ELSE IF ~Truthy(data) THEN ParseError(t)
        ELSE IF IsObject(data[1]) THEN StageData(data[1])
        ELSE PostProcessError(data[1])

RECURSIVE TextsOfLen(_)
TextsOfLen(n) ==
    IF n = 0 THEN {<<>>}
    ELSE {Append(t, c) : t \in TextsOfLen(n - 1), c \in Lexemes}

\* longest commentary before and after a framed object, in lexemes
MaxComment == 1

\* texts of well-formed JSON objects
ObjectTexts ==
    {<<"{", "}">>, <<"{", "K", "T", "}">>, <<"{", "K", "{", "}", "}">>,
     <<"{", " ", "K", " ", "T", " ", "}">>}

RECURSIVE CommentaryOfLen(_)
\* commentary: text without braces
CommentaryOfLen(n) ==
    IF n = 0 THEN {<<>>}
    ELSE {Append(t, c) : t \in CommentaryOfLen(n - 1), c \in {"x", " ", "T", "F", "G"}}

Commentary == UNION {CommentaryOfLen(n) : n \in 0..MaxComment}

\* commentary, an object with or without a fence around it, commentary
FramedTexts ==
    {pre \o open \o obj \o close \o post :
        pre \in Commentary, open \in {<<>>, <<"F">>, <<"G", " ">>},
        obj \in ObjectTexts, close \in {<<>>, <<" ", "F">>}, post \in Commentary}

\* an object in a ```json fence, followed by text with further braces
FenceThenBraces ==
    {<<"G">> \o obj \o <<"F">> \o tail :
        obj \in ObjectTexts,
        tail \in {<<"}">>, <<"{", "}">>, <<" ", "x", " ", "{", "K", "T", "}">>}}

\* the final texts of the model
Texts == UNION {TextsOfLen(n) : n \in 0..MaxTextLen} \cup FramedTexts \cup FenceThenBraces

InitRecover ==
    /\ \E callee \in {"run_agent1", "run_agent2", "run_agent3"} : IdleFlow(callee)
    /\ finalText \in {Some(t) : t \in Texts}
    /\ recovered = None
    /\ payload = None
    /\ roundsOut = None
    /\ runs = None
    /\ a2in = None
    /\ qaIn = None
    /\ qaOut = <<>>

\* run_agent1 from the final text on
RecoverAgent1 ==
    /\ entry = "run_agent1"
    /\ pc = "CALL"
    /\ finalText # None
    /\ recovered' = Some(RunAgentOnText(finalText[1]))
    /\ pc' = "RETURNED"
    /\ UNCHANGED <<flowVars, runs, roundsOut, a2in, payload, qaIn, qaOut, finalText>>

\* run_agent2 from the final text on
RecoverAgent2 ==
    /\ entry = "run_agent2"
    /\ pc = "CALL"
    /\ finalText # None
    /\ recovered' = Some(RunAgentOnText(finalText[1]))
    /\ pc' = "RETURNED"
    /\ UNCHANGED <<flowVars, runs, roundsOut, a2in, payload, qaIn, qaOut, finalText>>

\* run_agent3 from the final text on
RecoverAgent3 ==
    /\ entry = "run_agent3"
    /\ pc = "CALL"
    /\ finalText # None
    /\ recovered' = Some(RunAgent3OnText(finalText[1]))
    /\ pc' = "RETURNED"
    /\ UNCHANGED <<flowVars, runs, roundsOut, a2in, payload, qaIn, qaOut, finalText>>

NextRecover ==
    \/ RecoverAgent1
    \/ RecoverAgent2
    \/ RecoverAgent3

SpecRecover == InitRecover /\ [][NextRecover]_vars

\* whether a text holds a brace
HasBrace(str) == \E i \in 1..Len(str) : str[i] \in {"{", "}"}

\* C10: for a final text without '{' and '}', the stage returns the
\* {error, raw_output} shape of a failed recovery, with raw_output equal to the
\* text as the model gave it; it returns no recovered value.
C10_BracelessTextFails ==
    (finalText # None /\ recovered # None /\ ~HasBrace(finalText[1]))
    => /\ recovered[1].kind = "parse_error"
       /\ recovered[1].raw_output = finalText[1]

\* the sequence str without its white space: a JSON text as the value it denotes
Canon(str) == SelectSeq(str, LAMBDA c : c \notin Blank)

\* the part of a text from its first to its last brace (<<>> when it has none)
BraceSpan(str) ==
    LET braces == {i \in 1..Len(str) : str[i] \in {"{", "}"}}
    IN  IF braces = {} THEN <<>>
        ELSE SubSeq(str, Min(braces), CHOOSE i \in braces : \A j \in braces : j <= i)

\* a text that is commentary without braces, one well-formed object, commentary
\* without braces
FramesOneObject(str) == BraceSpan(str) \in ObjectTexts

ExtractOfCallee(str) ==
    IF entry = "run_agent3" THEN ExtractJsonObject3(str) ELSE ExtractJsonObject(str)

\* C12: for every final text, extract_json_object ends without an exception,
\* no exception reaches the caller of the stage, and when recovery failed
\* (extract_json_object returned None) the stage returns the {error,
\* raw_output} shape of a failed parse.
C12_RecoveryNeverRaises ==
    (finalText # None /\ recovered # None) =>
        /\ ExtractOfCallee(Strip(finalText[1])) # Raises
        /\ recovered[1].kind # "raised"
        /\ ExtractOfCallee(Strip(finalText[1])) = None
              => recovered[1] = ParseError(Strip(finalText[1]))

C12_Witness ==
    /\ finalText = Some(<<"G", "{", "x", "}">>)
    /\ entry = "run_agent3"
    /\ recovered = Some(ParseError(<<"G", "{", "x", "}">>))

\* C13: for every text the extract_json_object of Stage 1 and Stage 2 and the
\* extract_json_object of Stage 3 return the same result, the same value or
\* the same failure.
C13_OneSharedRecovery ==
    (finalText # None /\ recovered # None) =>
        ExtractJsonObject(Strip(finalText[1])) = ExtractJsonObject3(Strip(finalText[1]))

(***************************************************************************)
(* Properties of the Stage 3 repair.                                       *)
(***************************************************************************)
\* the guardrails have run on the recovered value
Repaired == qaIn # None /\ Len(qaOut) >= 1

\* the guardrails returned a QASet, not the "Post-processing failed" shape
ReturnedQASet == Repaired /\ qaOut[1].kind = "qaset"

\* C14: when the recovered top_30 is a list of more than 30 entries, the top_30
\* of the QASet the repair returns has exactly 30 entries, entry i being entry
\* i of the recovered list.
C14_Top30Truncated ==
    (/\ ReturnedQASet
     /\ qaIn[1].data.top_30.t = "list"
     /\ Len(qaIn[1].data.top_30.v) > Top30Limit)
    => /\ qaOut[1].data.top_30.t = "list"
       /\ Len(qaOut[1].data.top_30.v) = Top30Limit
       /\ \A i \in 1..Top30Limit : qaOut[1].data.top_30.v[i] = qaIn[1].data.top_30.v[i]

C14_Witness ==
    /\ ReturnedQASet
    /\ qaIn[1].data.top_30.t = "list"
    /\ Len(qaIn[1].data.top_30.v) = Top30Limit + 2
    /\ qaIn[1].data.top_30.v[1].question # qaIn[1].data.top_30.v[Top30Limit + 2].question
    /\ Len(qaOut[1].data.top_30.v) = Top30Limit

\* the notes the recovered value came with
NotesBefore == IF qaIn[1].data.notes.t = "list" THEN qaIn[1].data.notes.v ELSE <<>>

\* the recovered top_30 is a list of fewer than 30 entries
ShortTop30 ==
    /\ qaIn[1].data.isdict
    /\ qaIn[1].data.top_30.t = "list"
    /\ Len(qaIn[1].data.top_30.v) < Top30Limit

\* the repair returned a QASet with the recovered top_30 as it was and with a
\* note of its length next after the notes it came with
ShortTop30Kept ==
    /\ qaOut[1].kind = "qaset"
    /\ qaOut[1].data.top_30 = qaIn[1].data.top_30
    /\ qaOut[1].data.notes.t = "list"
    /\ Len(qaOut[1].data.notes.v) > Len(NotesBefore)
    /\ SubSeq(qaOut[1].data.notes.v, 1, Len(NotesBefore)) = NotesBefore
    /\ qaOut[1].data.notes.v[Len(NotesBefore) + 1] = CountNote(Len(qaIn[1].data.top_30.v))

WellTypedBookkeeping ==
    /\ qaIn[1].data.input.t \in {"absent", "dict"}
    /\ qaIn[1].data.notes.t \in {"absent", "list"}

FirstOccurrences(items, withEmpty) ==
    {i \in 1..Len(items) :
        /\ items[i].isdict
        /\ withEmpty \/ items[i].question # 0
        /\ \A j \in 1..(i - 1) :
              ~(items[j].isdict /\ items[j].question = items[i].question)}

\* the questions of a list of items in order, repeats left out, at most
\* Top20Limit of them
ScanQuestions(items, withEmpty) ==
    LET first == FirstOccurrences(items, withEmpty)
        n     == IF Cardinality(first) < Top20Limit THEN Cardinality(first) ELSE Top20Limit
    IN  [k \in 1..n |->
            items[CHOOSE i \in first : Cardinality({j \in first : j <= i}) = k].question]

\* the recovered top_20_questions is missing or a list of fewer than 20 entries
ShortTop20 ==
    /\ qaIn[1].data.isdict
    /\ \/ qaIn[1].data.top_20_questions.t = "absent"
       \/ /\ qaIn[1].data.top_20_questions.t = "list"
          /\ Len(qaIn[1].data.top_20_questions.v) < Top20Limit

\* the items of the repaired top_30 (none when it is not a list)
RepairedTop30 == IF qaOut[1].data.top_30.t = "list" THEN qaOut[1].data.top_30.v ELSE <<>>

\* the repair returned a QASet whose top_20_questions is the scan of its top_30
\* and whose last note says so
Top20IsScan(withEmpty) ==
    /\ qaOut[1].kind = "qaset"
    /\ qaOut[1].data.top_20_questions = ListV(ScanQuestions(RepairedTop30, withEmpty))
    /\ \A k \in 1..Len(qaOut[1].data.top_20_questions.v) :
          \E i \in 1..Len(RepairedTop30) :
             RepairedTop30[i].question = qaOut[1].data.top_20_questions.v[k]
    /\ qaOut[1].data.notes.t = "list"
    /\ qaOut[1].data.notes.v # <<>>
    /\ qaOut[1].data.notes.v[Len(qaOut[1].data.notes.v)] = DerivedNote

C17_CountInvariant ==
    ReturnedQASet =>
        /\ qaOut[1].data.top_30.t = "list" => Len(qaOut[1].data.top_30.v) <= Top30Limit
        /\ qaOut[1].data.top_20_questions.t = "list"
              => Len(qaOut[1].data.top_20_questions.v) <= Top20Limit
        /\ (/\ qaIn[1].data.top_20_questions.t = "list"
            /\ Len(qaIn[1].data.top_20_questions.v) > Top20Limit)
           => qaOut[1].data.top_20_questions =
                 ListV(SubSeq(qaIn[1].data.top_20_questions.v, 1, Top20Limit))

C17_Witness ==
    /\ ReturnedQASet
    /\ qaIn[1].data.top_30.t = "list"
    /\ Len(qaIn[1].data.top_30.v) = Top30Limit + 1
    /\ qaIn[1].data.top_20_questions.t = "list"
    /\ Len(qaIn[1].data.top_20_questions.v) = Top20Limit + 2
    /\ Len(qaOut[1].data.top_30.v) = Top30Limit
    /\ Len(qaOut[1].data.top_20_questions.v) = Top20Limit

\* C18: the QASet the repair returns has an input sub-object whose agent1_file,
\* agent2_file, doc_type and rounds are the values of the call context, also
\* when the model output came with values of its own for them.
C18_ContextIsAuthoritative ==
    ReturnedQASet =>
        /\ qaOut[1].data.input.t = "dict"
        /\ qaOut[1].data.input.v.agent1_file = Some(qaIn[1].ctx.agent1_path)
        /\ qaOut[1].data.input.v.agent2_file = Some(qaIn[1].ctx.agent2_path)
        /\ qaOut[1].data.input.v.doc_type = Some(qaIn[1].ctx.doc_type)
        /\ qaOut[1].data.input.v.rounds = Some(qaIn[1].ctx.rounds)

\* C19: in the QASet the repair returns, the round of every top_30 item is one
\* of the round names of the call.
C19_RoundsAreCallerRounds ==
    ReturnedQASet =>
        \A i \in 1..Len(RepairedTop30) :
            RepairedTop30[i].isdict =>
                \E k \in 1..Len(qaIn[1].ctx.rounds) :
                    RepairedTop30[i].round = qaIn[1].ctx.rounds[k]

(***************************************************************************)
(* extract_candidate_contact called on its own                             *)
(* (agent_4_dispatcher.py:80-141).                                         *)
(***************************************************************************)
ContactList == <<"John Doe", "john@example.com", "555-1234">>

TopVariants ==
    {EmptyMap,
     <<Item("email", "top@x.io")>>,
     <<Item("email", "n/a"), Item("recipient_email", "top@x.io")>>,
     <<Item("name", "Top Name")>>}

ContactEntityVariants ==
    {EmptyMap,
     <<Item("Contact Information", ContactList)>>,
     <<Item("Skills", <<"SQL", "other@x.io">>), Item("Contact Information", ContactList)>>,
     <<Item("Skills", <<"SQL", "other@x.io">>)>>,
     <<Item("Skills", <<"other@x.io">>), Item("mail", <<"jane@acme.io">>)>>,
     <<Item("contact", <<"no address">>), Item("Skills", <<"other@x.io">>)>>}

ContactPreviewVariants ==
    {<<>>,
     <<Seg("none", "Jane Lee")>>,
     <<Seg("none", "Jane Lee"), Seg("none", "Email: prev@x.io")>>}

\* the Stage 1 records extract_candidate_contact is given
ContactDocs ==
    {IllTyped(Doc("resume", t, e, p), et, pt) :
        t \in TopVariants, e \in ContactEntityVariants, p \in ContactPreviewVariants,
        et \in {"dict", "list"}, pt \in {"str", "list"}}
    \cup {ErrorShape, NonDict}

InitContact ==
    /\ entry = "extract_candidate_contact"
    /\ args = [send_email |-> FALSE, to_email |-> None, company |-> None, role |-> None,
               interview_rounds |-> None, rounds_list |-> None,
               print_full_result |-> FALSE, timestamp |-> "t1"]
    /\ env = [smtp_credentials |-> FALSE, smtp_port_numeric |-> TRUE]
    /\ pc = "CALL"
    /\ executed = <<>>
    /\ readLog = {}
    /\ resume_out \in {Some(d) : d \in ContactDocs}
    /\ jd_out = None
    /\ agent2_out = None
    /\ agent3_out = None
    /\ files = NoFiles
    /\ vectorIds = {}
    /\ audit = <<>>
    /\ stdoutJson = <<>>
    /\ exitCode = -1
    /\ failedAt = ""
    /\ dispatch = "none"
    /\ contact = None
    /\ invokes = 0
    /\ searches = 0
    /\ a2in = None
    /\ qaIn = None
    /\ qaOut = <<>>
    /\ finalText = None
    /\ recovered = None
    /\ payload = None
    /\ roundsOut = None
    /\ runs = None

CallExtractContact ==
    /\ entry = "extract_candidate_contact"
    /\ pc = "CALL"
    /\ IF ContactRaises(resume_out[1])
       THEN /\ pc' = "RAISED"
            /\ UNCHANGED contact
       ELSE /\ LET c == ExtractCandidateContact(resume_out[1])
               IN  contact' = Some([email |-> c.email, name |-> c.name,
                                    recipient |-> Recipient(None, c.email)])
            /\ pc' = "RETURNED"
    /\ UNCHANGED <<entry, args, env, executed, readLog, resume_out, jd_out, agent2_out,
                   agent3_out, files, vectorIds, audit, stdoutJson, exitCode, failedAt,
                   dispatch, invokes, searches, aux>>

NextContact == CallExtractContact

SpecContact == InitContact /\ [][NextContact]_vars

\* what each strategy finds in a record, in the order (a) top-level fields,
\* (b) contact entity groups, (c) all entity values, (d) preview text
StrategyEmails(agent1) ==
    <<FirstKeyedEmail(agent1.top, TopEmailKeys),
      IF agent1.entities_t = "dict"
      THEN FirstKeyedListEmail(agent1.entities, ContactLabels) ELSE None,
      IF agent1.entities_t = "dict" THEN FindEmailInDict(agent1.entities) ELSE None,
      FindEmailInPreview(agent1.preview)>>

\* C20: the email extract_candidate_contact returns is the match of the first
\* of the strategies (a) to (d) that has one, and none when none has; for a
\* record without top-level email whose "Contact Information" group is a list
\* with an email-shaped string it is the first such string of that list.
C20_EmailByFirstStrategy ==
    (entry = "extract_candidate_contact" /\ contact # None) =>
        LET found == StrategyEmails(resume_out[1])
            hit   == {i \in 1..4 : found[i] # None}
        IN  /\ contact[1].email = IF hit = {} THEN None ELSE found[Min(hit)]
            /\ (/\ found[1] = None
                /\ resume_out[1].entities_t = "dict"
                /\ HasKey(resume_out[1].entities, "Contact Information")
                /\ Get(resume_out[1].entities, "Contact Information") = ContactList)
               => contact[1].email = Some("john@example.com")

C20_Witness ==
    /\ entry = "extract_candidate_contact"
    /\ contact # None
    /\ resume_out[1].top = <<Item("name", "Top Name")>>
    /\ Len(resume_out[1].entities) = 2
    /\ resume_out[1].entities[2] = Item("Contact Information", ContactList)
    /\ Len(resume_out[1].preview) = 2
    /\ contact[1].email = Some("john@example.com")

\* C21: extract_candidate_contact never raises: for every Stage 1 output it is
\* given (an {error, raw_output} record, a record whose raw_text_preview or
\* entities is not a string / mapping, a record with missing fields) the call
\* returns a pair (email, name).
C21_ContactIsTotal ==
    (entry = "extract_candidate_contact" /\ resume_out[1].kind # "nondict")
        => pc # "RAISED"

\* the first non-empty top-level name-like field of a record, if any
TopLevelName(agent1) ==
    LET hit == {i \in 1..Len(TopNameKeys) :
                   /\ HasKey(agent1.top, TopNameKeys[i])
                   /\ Get(agent1.top, TopNameKeys[i]) # ""}
    IN  IF hit = {} THEN None ELSE Some(Get(agent1.top, TopNameKeys[Min(hit)]))

\* the text before the first '|' of the first line of the preview, if any
FirstLineName(agent1) ==
    IF agent1.preview_t = "str" /\ agent1.preview # <<>>
          /\ LineString(agent1.preview[1]) # ""
    THEN Some(LineString(agent1.preview[1])) ELSE None

\* C22: when the record has a non-empty top-level name-like field (name,
\* candidate_name, full_name) the returned name is that value, in preference
\* to the first line of raw_text_preview; otherwise the name is the text
\* before the first '|' of the first line of the preview.
C22_NamePrefersTopLevel ==
    (entry = "extract_candidate_contact" /\ contact # None) =>
        contact[1].name = IF TopLevelName(resume_out[1]) # None
                          THEN TopLevelName(resume_out[1])
                          ELSE FirstLineName(resume_out[1])

(***************************************************************************)
(* Properties of Stage 2 overrides.                                        *)
(***************************************************************************)
\* C23: whenever a non-empty company override (role override) is supplied,
\* the company_name (role_title) run_agent2 uses for research is the override,
\* for every parsed document and every doc_type; a role override is also the
\* role_title of the stub returned when no company is known.
C23_OverrideWins ==
    (entry = "run_agent2" /\ pc # "CALL" /\ a2in[1].agent1.kind # "nondict") =>
        /\ TruthyStr(a2in[1].company_override) =>
              /\ payload # None
              /\ Some(payload[1].company_name) = a2in[1].company_override
        /\ TruthyStr(a2in[1].role_override) =>
              IF payload # None
              THEN payload[1].role_title = a2in[1].role_override
              ELSE agent2_out[1].role_title = a2in[1].role_override

C23_Witness ==
    /\ entry = "run_agent2"
    /\ pc # "CALL"
    /\ a2in[1].agent1.kind = "doc"
    /\ a2in[1].agent1.doc_type = "job_description"
    /\ GuessCompanyAndRole(a2in[1].agent1) =
          [company_name |-> Some("PastCo"), role_title |-> Some("Analyst")]
    /\ a2in[1].company_override = Some("Override Co")
    /\ a2in[1].role_override = Some("Lead")
    /\ payload = Some(UserPayload("Override Co", Some("Lead"), "job_description"))

(***************************************************************************)
(* The interview-round string read by the runner (runner.py:11-38) and by  *)
(* Stage 3 (agent_3_qa_gen.py:222-226).                                    *)
(***************************************************************************)
MaxRoundsLen == 3

\* the characters of a rounds string: letters, the delimiters, '|' and blanks
RoundChars == {"A", "B", ";", ",", "|", "NL", " "}

RECURSIVE RoundStringsOfLen(_)
RoundStringsOfLen(n) ==
    IF n = 0 THEN {<<>>}
    ELSE {Append(t, c) : t \in RoundStringsOfLen(n - 1), c \in RoundChars}

RoundStrings == UNION {RoundStringsOfLen(n) : n \in 0..MaxRoundsLen}

InitRounds ==
    /\ IdleFlow("parse_rounds")
    /\ \E t \in RoundStrings : roundsOut = [text |-> t, runner |-> None, stage3 |-> None]
    /\ runs = None
    /\ a2in = None
    /\ payload = None
    /\ qaIn = None
    /\ qaOut = <<>>
    /\ finalText = None
    /\ recovered = None

\* runner.main: rounds = _parse_rounds(args.rounds_list, args.interview_rounds)
RunnerRounds ==
    /\ entry = "parse_rounds"
    /\ roundsOut.runner = None
    /\ roundsOut' = [roundsOut EXCEPT !.runner = Some(ParseRounds(None, Some(roundsOut.text)))]
    /\ pc' = IF roundsOut.stage3 # None THEN "RETURNED" ELSE pc
    /\ UNCHANGED <<flowVars, runs, a2in, payload, qaIn, qaOut, finalText, recovered>>

\* run_agent3: the rounds list of the same string
Stage3Rounds ==
    /\ entry = "parse_rounds"
    /\ roundsOut.stage3 = None
    /\ roundsOut' = [roundsOut EXCEPT !.stage3 = Some(Agent3Rounds(roundsOut.text))]
    /\ pc' = IF roundsOut.runner # None THEN "RETURNED" ELSE pc
    /\ UNCHANGED <<flowVars, runs, a2in, payload, qaIn, qaOut, finalText, recovered>>

NextRounds ==
    \/ RunnerRounds
    \/ Stage3Rounds

SpecRounds == InitRounds /\ [][NextRounds]_vars

\* the delimiters of a rounds string: ';', ',' and newline
RoundDelimiters == {";", ",", "NL"}

\* C24: the rounds string is split on ';', ',' and newline into trimmed,
\* non-empty round names in order, and the runner and Stage 3 derive the same
\* round list from the same string (no other character, such as '|', splits).
C24_RoundsSplitAlike ==
    (entry = "parse_rounds" /\ pc = "RETURNED") =>
        LET names == StripAll(SplitOn(roundsOut.text, RoundDelimiters))
        IN  names # <<>> =>
               /\ roundsOut.runner = Some(names)
               /\ roundsOut.stage3 = Some(names)

\* the interview-round input of the run is missing or yields no round name
NoRoundName ==
    /\ args.rounds_list = None \/ StripAll(args.rounds_list[1]) = <<>>
    /\ \/ args.interview_rounds = None
       \/ StripAll(SplitOn(args.interview_rounds[1], RoundDelimiters)) = <<>>

\* C25: a run whose interview-round input is missing or yields no round name
\* is rejected before any stage, storage call or external collaborator is
\* invoked; it never proceeds (with a substituted default round list).
C25_NoRoundsRejected ==
    (entry \in {"workflow", "runner"} /\ NoRoundName) =>
        /\ pc \in {"INIT", "USAGE_ERROR"}
        /\ executed = <<>>
        /\ files = NoFiles
        /\ vectorIds = {}
        /\ audit = <<>>
        /\ invokes = 0
        /\ searches = 0

(***************************************************************************)
(* Executions of workflow.main side by side.  Each execution reads the     *)
(* clock once (workflow.py:27) and names its artifact files and its        *)
(* retrieval-store entries after that reading.  The clock counts seconds.  *)
(***************************************************************************)
MaxClock == 1

Runs == {"run1", "run2"}
OutDirs == {"app/output", "other/output"}

\* the positions of an execution at which it writes, in statement order
RunOrder == <<"INIT", "AGENT1_FILE", "PERSIST_RETRIEVAL", "AGENT2_FILE", "AGENT3_FILE",
              "PDF_FILE", "DONE">>

RunSuccessor(position) ==
    RunOrder[(CHOOSE i \in 1..Len(RunOrder) : RunOrder[i] = position) + 1]

\* workflow.py:50, 72, 90, 103-104: os.path.join(args.out_dir, f"<name>_{timestamp}.<ext>")
ArtifactPath(out_dir, position, timestamp) ==
    [dir |-> out_dir, name |-> position, timestamp |-> timestamp]

\* vector_store.py:35: f"{doc_id}_chunk_{i}" with doc_id f"res_{timestamp}" or
\* f"jd_{timestamp}" (workflow.py:60-63); a preview has one chunk
EntryId(doc, timestamp) == [doc |-> doc, timestamp |-> timestamp, chunk |-> 0]

InitRuns ==
    /\ IdleFlow("workflow_runs")
    /\ \E dirs \in [Runs -> OutDirs] :
          runs = [clock   |-> 0,
                  run     |-> [r \in Runs |-> [pc |-> "INIT", out_dir |-> dirs[r],
                                               timestamp |-> 0]],
                  written |-> {},
                  added   |-> {}]
    /\ a2in = None
    /\ payload = None
    /\ qaIn = None
    /\ qaOut = <<>>
    /\ finalText = None
    /\ recovered = None
    /\ roundsOut = None

RunFrame == UNCHANGED <<flowVars, pc, a2in, payload, qaIn, qaOut, finalText, recovered,
                        roundsOut>>

\* a second passes
Tick ==
    /\ entry = "workflow_runs"
    /\ runs.clock < MaxClock
    /\ runs' = [runs EXCEPT !.clock = @ + 1]
    /\ RunFrame

\* workflow.py:26-27
RunStart(r) ==
    /\ entry = "workflow_runs"
    /\ runs.run[r].pc = "INIT"
    /\ runs' = [runs EXCEPT !.run[r].timestamp = runs.clock,
                            !.run[r].pc = RunSuccessor("INIT")]
    /\ RunFrame

\* workflow.py:50-52, 72-74, 90-92, 103-106: open(path, "w") and build_pdf
RunWriteFile(r) ==
    /\ entry = "workflow_runs"
    /\ runs.run[r].pc \in {"AGENT1_FILE", "AGENT2_FILE", "AGENT3_FILE", "PDF_FILE"}
    /\ LET me == runs.run[r]
       IN  runs' = [runs EXCEPT
                      !.written = @ \cup {[path |-> ArtifactPath(me.out_dir, me.pc, me.timestamp),
                                           run  |-> r]},
                      !.run[r].pc = RunSuccessor(me.pc)]
    /\ RunFrame

\* workflow.py:55-63: the previews that are not empty are stored; an id that
\* is in the collection already is ignored or rejected by collection.add
RunPersist(r) ==
    /\ entry = "workflow_runs"
    /\ runs.run[r].pc = "PERSIST_RETRIEVAL"
    /\ \E docs \in SUBSET {"res", "jd"}, rejected \in BOOLEAN :
          LET me  == runs.run[r]
              ids == {EntryId(d, me.timestamp) : d \in docs}
          IN  /\ rejected => \E a \in runs.added : a.id \in ids /\ a.run # r
              /\ runs' = [runs EXCEPT
                             !.added = @ \cup {[id |-> i, run |-> r] : i \in ids},
                             !.run[r].pc = IF rejected THEN "FAILED"
                                           ELSE RunSuccessor(me.pc)]
    /\ RunFrame

\* a stage raises before its artifact is written
RunFails(r) ==
    /\ entry = "workflow_runs"
    /\ runs.run[r].pc \in {"AGENT1_FILE", "AGENT2_FILE", "AGENT3_FILE", "PDF_FILE"}
    /\ runs' = [runs EXCEPT !.run[r].pc = "FAILED"]
    /\ RunFrame

NextRuns ==
    \/ Tick
    \/ \E r \in Runs : RunStart(r)
    \/ \E r \in Runs : RunWriteFile(r)
    \/ \E r \in Runs : RunPersist(r)
    \/ \E r \in Runs : RunFails(r)

SpecRuns == InitRuns /\ [][NextRuns]_vars

\* C26: two runs never write the same artifact file path and never add the
\* same retrieval-store entry id, under any interleaving, runs started within
\* the same second and with the same output directory included.
C26_RunsDoNotCollide ==
    entry = "workflow_runs" =>
        /\ \A w1, w2 \in runs.written : w1.path = w2.path => w1.run = w2.run
        /\ \A a1, a2 \in runs.added : a1.id = a2.id => a1.run = a2.run

(***************************************************************************)
(* Properties of the audit store and of the stage records.                 *)
(***************************************************************************)
\* C27: the audit store is append-only with one row per orchestrator
\* execution: every execution of the orchestrator that has ended, whatever
\* its outcome, has added exactly one RunRecord, and no step modifies or
\* deletes a row inserted before.
C27_OneAuditRowPerRun ==
    /\ []((entry = "workflow" /\ Terminated) => Len(audit) = 1)
    /\ [][Len(audit') >= Len(audit) /\ SubSeq(audit', 1, Len(audit)) = audit]_vars

\* a value that exists stays as it is in the step
Kept(before, after) == before # None => after = before

\* C28: no later stage alters an earlier stage's record: once produced, the
\* Stage 1 documents, the Stage 2 report and the Stage 3 output stay exactly as
\* they were through every later step (Stage 2, Stage 3, contact extraction,
\* rendering, dispatch, audit), and an artifact file that was written is not
\* written again.
C28_EarlierRecordsKept ==
    [][/\ Kept(resume_out, resume_out')
       /\ Kept(jd_out, jd_out')
       /\ Kept(agent2_out, agent2_out')
       /\ Kept(agent3_out, agent3_out')
       /\ Kept(files.agent1, files'.agent1)
       /\ Kept(files.agent2, files'.agent2)
       /\ Kept(files.agent3, files'.agent3)]_vars

C28_Witness ==
    /\ entry = "workflow"
    /\ pc = "DONE"
    /\ resume_out = Some(ResumeJane)
    /\ jd_out = Some(JdAcme)
    /\ files.agent1 = Some([resume_data |-> ResumeJane, jd_data |-> JdAcme])
    /\ agent2_out # None /\ agent2_out[1].kind = "report"
    /\ files.agent2 = agent2_out
    /\ agent3_out = Some([kind |-> "qaset"])
    /\ files.agent3 = agent3_out
    /\ files.pdf # None
    /\ contact # None

(***************************************************************************)
(* Further properties of recovery and of the Stage 3 repair.               *)
(***************************************************************************)
\* the text, white space at its ends aside, is one well-formed JSON object
IsObjectText(str) ==
    JsonLoads(Strip(str)) # None /\ IsObject(JsonLoads(Strip(str))[1])

\* C29: whenever the final text is a well-formed JSON object, the empty
\* object {} included, the stage does not return the {error: "Failed to
\* parse JSON from agent output.", raw_output} shape; that shape is returned
\* only when no JSON object can be recovered from the text.
C29_ObjectTextIsSuccess ==
    (finalText # None /\ recovered # None) =>
        /\ IsObjectText(finalText[1]) => recovered[1].kind # "parse_error"
        /\ recovered[1].kind = "parse_error" =>
              LET data == ExtractOfCallee(Strip(finalText[1]))
              IN  data = None \/ ~IsObject(data[1])

\* the recovered value has a shape the guardrails do not expect
UnexpectedShape ==
    \/ ~qaIn[1].data.isdict
    \/ qaIn[1].data.input.t = "other"
    \/ qaIn[1].data.notes.t = "other"

\* a recovered top_30 list with an item that is not a mapping
HasNonDictItem ==
    /\ qaIn[1].data.top_30.t = "list"
    /\ \E i \in 1..Len(qaIn[1].data.top_30.v) : ~qaIn[1].data.top_30.v[i].isdict

\* C30: the Stage 3 repair never raises, whatever the recovered value: it
\* returns the repaired QASet or the "Post-processing failed" shape.  The
\* error shape is returned only for a value that is not a mapping, whose
\* input is not a mapping or whose notes is not a list; a value that is not
\* a mapping or whose input is not a mapping is its raw_output unchanged, and
\* top_30 items that are not mappings are repaired, not reported.
C30_RepairNeverRaises ==
    Repaired =>
        /\ \A i \in 1..Len(qaOut) : qaOut[i].kind \in {"qaset", "error"}
        /\ qaOut[1].kind = "error" => UnexpectedShape
        /\ (~qaIn[1].data.isdict \/ qaIn[1].data.input.t = "other") =>
              qaOut[1] = [kind |-> "error", data |-> qaIn[1].data]
        /\ (HasNonDictItem /\ ~UnexpectedShape) => qaOut[1].kind = "qaset"

C30_Witness ==
    /\ Repaired
    /\ qaIn[1].data.isdict
    /\ qaIn[1].data.input.t = "absent"
    /\ qaIn[1].data.notes.t = "other"
    /\ HasNonDictItem
    /\ Len(qaIn[1].data.top_30.v) = Top30Limit + 1
    /\ qaIn[1].data.top_20_questions.t = "absent"
    /\ qaOut[1].kind = "error"
    /\ qaOut[1].data.input.t = "dict"
    /\ Len(qaOut[1].data.top_30.v) = Top30Limit

====
